---- MODULE Spec2Model ----
(***************************************************************************)
(* A model of danledinh/biohub_scratch1:                                   *)
(*   src/outrigger_validate.py  the splice-validation pipeline (main and   *)
(*                              its stages module1 .. module4, logging)    *)
(*   src/scanpy_helpers.py      subset_adata, subset_adata_v2,             *)
(*                              subset_adata_v3, scan_res, classify_type   *)
(* Strings the code takes apart (the object-storage path) are sequences of *)
(* one-character strings; every other string is an atom.                   *)
(***************************************************************************)
EXTENDS Integers, Sequences, FiniteSets, TLC

VARIABLES
    \* ---- outrigger_validate.py: main ----
    pc,           \* position in main
    s3path,       \* sys.argv[1]
    file_prefix,  \* main's local, Unbound until module1 returns
    prefix,       \* main's local, Unbound until module1 returns
    plate,        \* main's local, Unbound until module1 returns
    exit_code,    \* main's local exit_code
    subtype,      \* index of the upload loop over ['se','mxe']
    log,          \* lines of <wkdir>/log.txt, in file order
    calls,        \* stages invoked so far, with their arguments
    error,        \* the exception that ended main, or "none"
    \* ---- scanpy_helpers.py: subsetting ----
    adata,        \* the annotated matrix passed in
    raw,          \* the second ("raw") matrix of subset_adata_v2
    feature_dict, \* ordered mapping column -> list of values
    out,          \* the matrix returned by the last call
    prev,         \* the matrix the last call was given
    op,           \* the last helper called
    \* ---- scanpy_helpers.py: classify_type ----
    raw_names,    \* raw_adata.obs_names
    clustered,    \* clustered_adata.obs: rows of [name, louvain]
    type_dict,    \* ordered mapping label -> cluster values
    type_col,     \* raw_adata.obs[col_name] once classify_type has run
    cpc,          \* position in classify_type
    \* ---- scanpy_helpers.py: scan_res ----
    spc,          \* position in scan_res
    step_size,    \* the step size, in thousandths
    sidx,         \* index of the running loop of scan_res
    res_list,     \* candidate resolutions, in hundredths
    df_cols,      \* df.columns, in insertion order
    acc_list,     \* one entry per class2class_reg call
    sim_df        \* the resolution/similarity table once it is built

pipeVars  == <<pc, s3path, file_prefix, prefix, plate, exit_code, subtype, log, calls, error>>
subVars   == <<adata, raw, feature_dict, out, prev, op>>
classVars == <<raw_names, clustered, type_dict, type_col, cpc>>
scanVars  == <<spc, step_size, sidx, res_list, df_cols, acc_list, sim_df>>
vars      == <<pipeVars, subVars, classVars, scanVars>>

\* a local that was never assigned (no path string has this shape)
Unbound == <<"<unbound>">>

\* ------------------------------------------------------------------------
\* Bounds
\* ------------------------------------------------------------------------
MaxMainPathLen == 4   \* longest path handed to main
MaxLeadLen     == 2   \* longest leading part of a path handed to module1 alone
MaxFileLen     == 8   \* longest final segment of a path handed to module1 alone
MaxExitCode    == 1   \* largest exit status of an external process
MaxElapsed     == 1   \* largest elapsed time

Letters  == {"a"}
FileChar == Letters \cup {"_", "."}
PathChar == FileChar \cup {"/"}

Strs(alphabet, n) == UNION {[1..k -> alphabet] : k \in 0..n}

\* ------------------------------------------------------------------------
\* Python string helpers
\* ------------------------------------------------------------------------
Last(s) == s[Len(s)]

\* str.split(d): the pieces between occurrences of d, empty pieces kept
RECURSIVE Split(_, _)
Split(s, d) ==
    IF \A i \in 1..Len(s) : s[i] # d
    THEN <<s>>
    ELSE LET i == CHOOSE k \in 1..Len(s) : s[k] = d /\ \A j \in 1..(k-1) : s[j] # d
         IN  <<SubSeq(s, 1, i-1)>> \o Split(SubSeq(s, i+1, Len(s)), d)

\* d.join(l)
RECURSIVE Join(_, _)
Join(l, d) ==
    IF Len(l) = 0 THEN <<>>
    ELSE IF Len(l) = 1 THEN l[1]
    ELSE l[1] \o <<d>> \o Join(Tail(l), d)

\* l[1:]
PyTail(l) == IF Len(l) = 0 THEN <<>> ELSE Tail(l)

\* l[:n]
Take(l, n) == SubSeq(l, 1, IF Len(l) < n THEN Len(l) ELSE n)

\* ------------------------------------------------------------------------
\* outrigger_validate.py
\* ------------------------------------------------------------------------
wkdir    == "/home/ubuntu/wkdir"
gtf_file == "/home/ubuntu/data/HG38-PLUS/genes/genes.gtf"
fa_file  == "/home/ubuntu/data/HG38-PLUS/fasta/genome.fa"
dest     == "s3://daniel.le-work/MEL_project/DL20190111_outrigger"
subtypes == <<"se", "mxe">>

\* module1: raised is TRUE when file_prefix.split('_')[1] is out of range
module1(path) ==
    LET fp   == Last(Split(Split(path, ".")[1], "/"))
        toks == Split(fp, "_")
    IN  IF Len(toks) < 2
        THEN [raised |-> TRUE, file_prefix |-> Unbound, prefix |-> Unbound, plate |-> Unbound]
        ELSE [raised |-> FALSE, file_prefix |-> fp,
              prefix |-> Join(Take(toks, 2), "_"), plate |-> toks[2]]

\* logging: one line "name, exit_code" appended to log.txt
logging(lines, name, code) == Append(lines, <<name, code>>)

\* subprocess.run inside module2 .. module4: the process ends with an exit
\* status, or os.chdir / run raise OSError (missing directory or executable)
RaisesOSError == "OSError"
ExitCodes == 0..MaxExitCode

\* one external-process stage followed by its logging call
Stage(name, args, nextpc) ==
    /\ calls' = Append(calls, <<name, args>>)
    /\ \/ \E o \in ExitCodes :
              /\ exit_code' = o
              /\ log' = logging(log, name, o)
              /\ pc' = nextpc
              /\ UNCHANGED error
       \/ /\ error' = RaisesOSError
          /\ pc' = "crashed"
          /\ UNCHANGED <<exit_code, log>>

\* main, lines 57-62
ParsePath ==
    /\ pc = "parse_path"
    /\ LET r == module1(s3path)
       IN  /\ calls' = Append(calls, <<"parse_path", <<s3path>>>>)
           /\ IF r.raised
              THEN /\ exit_code' = 1
                   /\ UNCHANGED <<file_prefix, prefix, plate>>
              ELSE /\ exit_code' = 0
                   /\ file_prefix' = r.file_prefix
                   /\ prefix' = r.prefix
                   /\ plate' = r.plate
           /\ log' = logging(log, "parse_path", exit_code')
    /\ pc' = "s3_download"
    /\ UNCHANGED <<s3path, subtype, error>>

\* main, lines 65-66
S3Download ==
    /\ pc = "s3_download"
    /\ Stage("s3_download", <<s3path, wkdir>>, "run_outrigger")
    /\ UNCHANGED <<s3path, file_prefix, prefix, plate, subtype>>

\* main, lines 69-70: reading file_prefix when module1 raised is an
\* UnboundLocalError, raised before module3A is called
RunOutrigger ==
    /\ pc = "run_outrigger"
    /\ IF file_prefix = Unbound
       THEN /\ error' = "UnboundLocalError"
            /\ pc' = "crashed"
            /\ UNCHANGED <<exit_code, log, calls>>
       ELSE Stage("run_outrigger", <<wkdir, file_prefix, gtf_file>>, "run_validate")
    /\ UNCHANGED <<s3path, file_prefix, prefix, plate, subtype>>

\* main, lines 72-73
RunValidate ==
    /\ pc = "run_validate"
    /\ Stage("run_validate", <<wkdir, fa_file>>, "upload")
    /\ UNCHANGED <<s3path, file_prefix, prefix, plate, subtype>>

\* main, lines 76-78: one iteration of the loop over ['se','mxe']
Upload ==
    /\ pc = "upload"
    /\ Stage(subtypes[subtype] \o "_upload", <<wkdir, subtypes[subtype], dest>>,
             IF subtype = Len(subtypes) THEN "exec_time" ELSE "upload")
    /\ subtype' = IF pc' = "upload" THEN subtype + 1 ELSE subtype
    /\ UNCHANGED <<s3path, file_prefix, prefix, plate>>

\* main, lines 81-85
RecordExecTime ==
    /\ pc = "exec_time"
    /\ \E etime \in 0..MaxElapsed : log' = logging(log, "__exec_time", etime)
    /\ pc' = "done"
    /\ UNCHANGED <<s3path, file_prefix, prefix, plate, exit_code, subtype, calls, error>>

\* the matrix variables before any matrix is bound
NoData == [obs |-> <<>>, X |-> <<>>]

PipeIdle ==
    /\ pc = "idle" /\ s3path = <<>> /\ file_prefix = Unbound /\ prefix = Unbound
    /\ plate = Unbound /\ exit_code = 0 /\ subtype = 1 /\ log = <<>> /\ calls = <<>>
    /\ error = "none"
SubIdle ==
    /\ adata = NoData /\ raw = NoData /\ feature_dict = <<>> /\ out = NoData
    /\ prev = NoData /\ op = "none"
ClassIdle ==
    /\ raw_names = <<>> /\ clustered = <<>> /\ type_dict = <<>> /\ type_col = <<>>
    /\ cpc = "idle"
ScanIdle ==
    /\ spc = "idle" /\ step_size = 0 /\ sidx = 1 /\ res_list = <<>> /\ df_cols = <<>>
    /\ acc_list = <<>> /\ sim_df = <<>>

PipeStart(paths) ==
    /\ pc = "parse_path" /\ s3path \in paths /\ file_prefix = Unbound /\ prefix = Unbound
    /\ plate = Unbound /\ exit_code = 0 /\ subtype = 1 /\ log = <<>> /\ calls = <<>>
    /\ error = "none"

\* paths handed to main: every string up to MaxMainPathLen
MainPaths == Strs(PathChar, MaxMainPathLen)

Init == PipeStart(MainPaths) /\ SubIdle /\ ClassIdle /\ ScanIdle

Next ==
    \/ ParsePath /\ UNCHANGED <<subVars, classVars, scanVars>>
    \/ S3Download /\ UNCHANGED <<subVars, classVars, scanVars>>
    \/ RunOutrigger /\ UNCHANGED <<subVars, classVars, scanVars>>
    \/ RunValidate /\ UNCHANGED <<subVars, classVars, scanVars>>
    \/ Upload /\ UNCHANGED <<subVars, classVars, scanVars>>
    \/ RecordExecTime /\ UNCHANGED <<subVars, classVars, scanVars>>

Spec == Init /\ [][Next]_vars

\* paths handed to module1 alone: a leading part (empty, or any string
\* followed by '/') and a final segment free of '/'
Leads == {<<>>} \cup {l \o <<"/">> : l \in Strs(PathChar, MaxLeadLen)}
ParsePaths == {l \o f : l \in Leads, f \in Strs(FileChar, MaxFileLen)}

InitParse == PipeStart(ParsePaths) /\ SubIdle /\ ClassIdle /\ ScanIdle

NextParse == ParsePath /\ UNCHANGED <<subVars, classVars, scanVars>>

SpecParse == InitParse /\ [][NextParse]_vars

\* ------------------------------------------------------------------------
\* Claims about outrigger_validate.py
\* ------------------------------------------------------------------------
Names(seq) == [i \in 1..Len(seq) |-> seq[i][1]]
StageNames == <<"parse_path", "s3_download", "run_outrigger", "run_validate",
                "se_upload", "mxe_upload">>
ExternalStages == Tail(StageNames)
StageLines == SelectSeq(log, LAMBDA line : line[1] # "__exec_time")
Ended == pc \in {"done", "crashed"}
ParseFailed == Len(log) >= 1 /\ log[1] = <<"parse_path", 1>>

\* C1: the log holds exactly one line per stage invoked so far, in the order
\* the stages were invoked, whether the stage succeeded, exited non-zero or
\* failed in any other way.
C1_OneLinePerInvokedStage == Names(StageLines) = Names(calls)

\* a stage whose external call raised: invoked, and main ends without its line
C1_StageRaised ==
    /\ pc = "crashed" /\ error = RaisesOSError
    /\ Len(calls) = Len(StageLines) + 1

\* the part of C1 the code keeps: every stage that came back (with an exit
\* status or a caught parse exception) has its line, in order
C1_ReturnedStagesLogged ==
    Names(StageLines) = (IF error = RaisesOSError
                         THEN SubSeq(Names(calls), 1, Len(calls) - 1)
                         ELSE Names(calls))

\* the stage arguments main builds from its constants and module1's result
ExpectedCalls ==
    <<  <<"parse_path", <<s3path>>>>,
        <<"s3_download", <<s3path, wkdir>>>>,
        <<"run_outrigger", <<wkdir, module1(s3path).file_prefix, gtf_file>>>>,
        <<"run_validate", <<wkdir, fa_file>>>>,
        <<"se_upload", <<wkdir, "se", dest>>>>,
        <<"mxe_upload", <<wkdir, "mxe", dest>>>> >>

\* C9: whatever statuses the external stages return, all five are invoked in
\* the fixed order with the fixed arguments and the run ends with the
\* __exec_time line.
C9_StatusNeverGates ==
    (Ended /\ error # RaisesOSError) =>
        /\ calls = ExpectedCalls
        /\ Len(log) >= 1 /\ log[Len(log)][1] = "__exec_time"

\* what the code does keep of C9: once module1 has returned, no status stops
\* the run
C9_HoldsWhenParsed ==
    (Ended /\ error # RaisesOSError /\ ~ParseFailed) =>
        /\ calls = ExpectedCalls
        /\ log[Len(log)][1] = "__exec_time"
        /\ Names(StageLines) = StageNames

\* C10: after module1 fails, 'parse_path, 1' is logged and the download,
\* index, validate and both upload stages are still invoked and logged.
C10_ContinuesAfterParseFailure ==
    (Ended /\ ParseFailed /\ error # RaisesOSError) =>
        /\ Names(calls) = StageNames
        /\ Names(StageLines) = StageNames

\* what happens instead: the unbound file_prefix ends main after the download
C10_StopsAtIndex ==
    (Ended /\ ParseFailed /\ error # RaisesOSError) =>
        /\ pc = "crashed" /\ error = "UnboundLocalError"
        /\ Names(calls) = <<"parse_path", "s3_download">>
        /\ Names(StageLines) = <<"parse_path", "s3_download">>

\* the final segment of a path (after its last '/') and its parts
FinalSegment(path) == Last(Split(path, "/"))
Stem(path) == Split(FinalSegment(path), ".")[1]
StemTokens(path) == Split(Stem(path), "_")
\* .../A_B_rest.ext: the final segment is a stem of at least three non-empty
\* '_'-separated tokens A, B, rest.. followed by non-empty '.'-separated
\* extensions (tokens hold no '_', '.' or '/' by construction)
WellFormed(path) ==
    /\ Len(Split(FinalSegment(path), ".")) >= 2
    /\ \A i \in 1..Len(Split(FinalSegment(path), ".")) :
          Split(FinalSegment(path), ".")[i] # <<>>
    /\ Len(StemTokens(path)) >= 3
    /\ \A i \in 1..Len(StemTokens(path)) : StemTokens(path)[i] # <<>>

\* C2: on a well-formed path .../A_B_rest.ext module1 returns
\* file_prefix = A_B_rest, prefix = A_B and plate = B.
C2_WellFormedParse ==
    (pc = "s3_download" /\ WellFormed(s3path)) =>
        /\ file_prefix = Stem(s3path)
        /\ prefix = StemTokens(s3path)[1] \o <<"_">> \o StemTokens(s3path)[2]
        /\ plate = StemTokens(s3path)[2]

\* the part of C2 the code keeps: paths whose leading segments hold no '.'
C2_HoldsWithoutDotInLead ==
    (pc = "s3_download" /\ WellFormed(s3path)
       /\ Len(Split(s3path, ".")[1]) >= Len(s3path) - Len(FinalSegment(s3path))) =>
        /\ file_prefix = Stem(s3path)
        /\ prefix = StemTokens(s3path)[1] \o <<"_">> \o StemTokens(s3path)[2]
        /\ plate = StemTokens(s3path)[2]

\* ------------------------------------------------------------------------
\* scanpy_helpers.py: the annotated matrix and the boolean mask subsetters
\* ------------------------------------------------------------------------
MaxCells == 2   \* cells of a matrix
MaxVals  == 2   \* values listed under one key of feature_dict

Cols == {"k1", "k2"}          \* metadata columns
Vals == {"u", "v"}            \* metadata values
CellIds == 1..MaxCells        \* cell identifiers

\* sequences of distinct elements of S
Orderings(S) == {q \in Strs(S, Cardinality(S)) : \A i, j \in 1..Len(q) : i # j => q[i] # q[j]}

\* an annotated matrix: obs is the cell metadata table (one row per cell:
\* its name and its column values), X the matrix rows by their row key
AnnData(names, cols) ==
    [obs |-> [i \in 1..Len(names) |-> [name |-> names[i], cols |-> cols[i]]],
     X   |-> names]
\* the cells S in ascending and in descending order of identifier
Ascending(S) ==
    CHOOSE q \in Orderings(S) : Len(q) = Cardinality(S) /\ \A i \in 1..(Len(q)-1) : q[i] < q[i+1]
Descending(S) == [i \in 1..Cardinality(S) |-> Ascending(S)[Cardinality(S) + 1 - i]]
\* the matrices handed to the subsetters: any cells, any metadata
Matrices ==
    UNION {{AnnData(Ascending(S), c) : c \in [1..Cardinality(S) -> [Cols -> Vals]]} :
           S \in SUBSET CellIds}
\* the raw matrices of subset_adata_v2: the first n cells in either order,
\* every row carrying the same metadata
RawMatrices ==
    UNION {{AnnData(q, [i \in 1..Len(q) |-> [k \in Cols |-> v]]) : v \in Vals} :
           q \in UNION {{Ascending(1..n), Descending(1..n)} : n \in 0..MaxCells}}
\* feature_dict in iteration order: distinct keys, each with a list of values
FeatureDicts ==
    UNION {{[i \in 1..Len(q) |-> <<q[i], l[i]>>] : l \in [1..Len(q) -> Strs(Vals, MaxVals)]} :
           q \in Orderings(Cols)}

obs_names(ad) == [i \in 1..Len(ad.obs) |-> ad.obs[i].name]
Range(f) == {f[i] : i \in DOMAIN f}

\* seq[mask] for a boolean mask
RECURSIVE FilterBy(_, _)
FilterBy(seq, mask) ==
    IF Len(seq) = 0 THEN <<>>
    ELSE (IF mask[1] THEN <<seq[1]>> ELSE <<>>) \o FilterBy(Tail(seq), Tail(mask))

\* mutant: the matrix rows are left unfiltered
Index_ObsOnly(ad, mask) == [obs |-> FilterBy(ad.obs, mask), X |-> ad.X]
\* mutant: the mask is applied one row late
Index_OffByOne(ad, mask) ==
    LET late == [i \in 1..Len(mask) |-> i > 1 /\ mask[i-1]]
    IN  [obs |-> FilterBy(ad.obs, late), X |-> FilterBy(ad.X, late)]
\* adata[mask, :] filters the metadata table and the matrix rows alike
Index(ad, mask) == [obs |-> FilterBy(ad.obs, mask), X |-> FilterBy(ad.X, mask)]

\* np.array(obs[key] == val, dtype='bool') stored in a row of a float array
ObsEq(obs, key, val) == [i \in 1..Len(obs) |-> IF obs[i].cols[key] = val THEN 1 ELSE 0]

\* the stack filled by the loop over the values of one key
Stack(obs, key, value) == [d \in 1..Len(value) |-> ObsEq(obs, key, value[d])]

\* a reduction of column i of a 2-d array down its rows
RECURSIVE SumCol(_, _)
SumCol(arr, i) ==
    IF Len(arr) = 0 THEN FALSE ELSE (arr[1][i] # 0) \/ SumCol(Tail(arr), i)
RECURSIVE ProdCol(_, _)
ProdCol(arr, i) ==
    IF Len(arr) = 0 THEN TRUE ELSE (arr[1][i] # 0) /\ ProdCol(Tail(arr), i)

\* mutant: the values of a key are multiplied instead of summed
NpSumBool_AsProduct(arr, n) == [i \in 1..n |-> IF ProdCol(arr, i) THEN 1 ELSE 0]
\* np.sum(arr, axis=0, dtype='bool'), stored back in a float array
NpSumBool(arr, n) == [i \in 1..n |-> IF SumCol(arr, i) THEN 1 ELSE 0]

\* mutant: the keys are summed instead of multiplied
NpProductBool_AsSum(arr, n) == [i \in 1..n |-> SumCol(arr, i)]
\* np.product(arr, axis=0, dtype='bool')
NpProductBool(arr, n) == [i \in 1..n |-> ProdCol(arr, i)]

\* the two nested loops and the final product: subset_list
SubsetList(obs, fd, stack_len) ==
    NpProductBool([k \in 1..Len(fd) |-> NpSumBool(Stack(obs, fd[k][1], fd[k][2]), stack_len)],
                  stack_len)

subset_adata(ad, fd) == Index(ad, SubsetList(ad.obs, fd, Len(ad.obs)))

\* stack_len is len(raw), the number of matrix rows
subset_adata_v3(r, fd) == Index(r, SubsetList(r.obs, fd, Len(r.X)))

\* mutant: the mask is computed against raw's own metadata
subset_adata_v2_MaskOnRaw(r, subset, fd) == Index(r, SubsetList(r.obs, fd, Len(r.obs)))
subset_adata_v2(r, subset, fd) ==
    LET input_adata == Index(subset, SubsetList(subset.obs, fd, Len(subset.obs)))
        matches == [i \in 1..Len(r.obs) |-> r.obs[i].name \in Range(obs_names(input_adata))]
    IN  Index(r, matches)

SubsetAdata ==
    /\ op = "start"
    /\ out' = subset_adata(adata, feature_dict)
    /\ prev' = adata
    /\ op' = "subset_adata"
    /\ UNCHANGED <<adata, raw, feature_dict>>

\* the caller subsets the returned matrix by the same feature_dict
SubsetAdataAgain ==
    /\ op = "subset_adata"
    /\ out' = subset_adata(out, feature_dict)
    /\ prev' = out
    /\ op' = "subset_adata_again"
    /\ UNCHANGED <<adata, raw, feature_dict>>

SubsetAdataV3 ==
    /\ op = "start"
    /\ out' = subset_adata_v3(adata, feature_dict)
    /\ prev' = adata
    /\ op' = "subset_adata_v3"
    /\ UNCHANGED <<adata, raw, feature_dict>>

SubsetAdataV2 ==
    /\ op = "start"
    /\ \E r \in RawMatrices :
         /\ raw' = r
         /\ out' = subset_adata_v2(r, adata, feature_dict)
    /\ prev' = adata
    /\ op' = "subset_adata_v2"
    /\ UNCHANGED <<adata, feature_dict>>

InitSubset ==
    /\ PipeIdle /\ ClassIdle /\ ScanIdle
    /\ adata \in Matrices /\ feature_dict \in FeatureDicts
    /\ raw = NoData /\ out = NoData /\ prev = NoData /\ op = "start"

NextSubset ==
    \/ SubsetAdata /\ UNCHANGED <<pipeVars, classVars, scanVars>>
    \/ SubsetAdataAgain /\ UNCHANGED <<pipeVars, classVars, scanVars>>
    \/ SubsetAdataV3 /\ UNCHANGED <<pipeVars, classVars, scanVars>>
    \/ SubsetAdataV2 /\ UNCHANGED <<pipeVars, classVars, scanVars>>

SpecSubset == InitSubset /\ [][NextSubset]_vars

\* ------------------------------------------------------------------------
\* Claims about the boolean mask subsetters
\* ------------------------------------------------------------------------
\* the row's value in column k is one of the values listed under k, for every k
Satisfies(row, fd) ==
    \A k \in 1..Len(fd) : \E d \in 1..Len(fd[k][2]) : row.cols[fd[k][1]] = fd[k][2][d]
HasEmptyList(fd) == \E k \in 1..Len(fd) : fd[k][2] = <<>>
\* the data-model invariant: the metadata rows and the matrix rows carry the
\* same keys, row by row
KeysAgree(ad) == obs_names(ad) = ad.X

\* C4: subset_adata and subset_adata_v3 return exactly the rows whose value in
\* every key's column is one of that key's values (OR within a key, AND across
\* keys; every row for the empty mapping), in their original order.
C4_OrWithinAndAcross ==
    op \in {"subset_adata", "subset_adata_again", "subset_adata_v3"} =>
        /\ out.obs = SelectSeq(prev.obs, LAMBDA row : Satisfies(row, feature_dict))
        /\ out.X = obs_names(out)

\* two keys, one of them listing two different values, some rows kept and
\* some dropped
C4_Witness ==
    /\ op = "subset_adata_v3"
    /\ Len(feature_dict) = 2
    /\ \E k \in 1..2 : Len(feature_dict[k][2]) = 2 /\ feature_dict[k][2][1] # feature_dict[k][2][2]
    /\ Len(out.obs) > 0 /\ Len(out.obs) < Len(adata.obs)

\* C5: a feature_dict with an empty value list under some key gives a matrix
\* with zero rows from every subsetting function.
C5_EmptyListGivesNoRows ==
    (op # "start" /\ HasEmptyList(feature_dict)) => (out.obs = <<>> /\ out.X = <<>>)

\* an empty list under one key while every row satisfies the other key
C5_Witness ==
    /\ op = "subset_adata"
    /\ Len(feature_dict) = 2 /\ feature_dict[1][2] = <<>> /\ feature_dict[2][2] # <<>>
    /\ Len(adata.obs) = MaxCells
    /\ \A i \in 1..Len(adata.obs) : Satisfies(adata.obs[i], <<feature_dict[2]>>)
    /\ out.obs = <<>>

\* C6: subsetting the result of subset_adata again by the same feature_dict
\* returns the same matrix (rows, order and metadata).
C6_Idempotent == op = "subset_adata_again" => out = prev

\* a second subsetting of a matrix that lost some rows and kept others
C6_Witness ==
    /\ op = "subset_adata_again"
    /\ Len(prev.obs) > 0 /\ Len(prev.obs) < Len(adata.obs)
    /\ Len(feature_dict) > 0

\* C7: every output of subset_adata, subset_adata_v2 and subset_adata_v3 keeps
\* the metadata rows and the matrix rows on the same keys, a subset of the
\* keys of the matrix that was restricted.
C7_KeysStayEqual ==
    op # "start" =>
        /\ KeysAgree(out)
        /\ Range(out.X) \subseteq Range(IF op = "subset_adata_v2" THEN raw.X ELSE prev.X)

\* subset_adata_v2 keeping some rows of raw and dropping others
C7_Witness ==
    /\ op = "subset_adata_v2"
    /\ KeysAgree(raw) /\ KeysAgree(adata)
    /\ Len(out.obs) > 0 /\ Len(out.obs) < Len(raw.obs)

\* the identifiers of the rows of the filtered matrix that satisfy fd
SurvivingNames(subset, fd) ==
    {subset.obs[i].name : i \in {i \in 1..Len(subset.obs) : Satisfies(subset.obs[i], fd)}}

\* C11: subset_adata_v2 returns exactly the rows of raw whose identifier is
\* that of a row of the filtered matrix satisfying feature_dict, in raw's
\* order and with raw's metadata; identifiers absent from the filtered matrix
\* or found only on failing rows are dropped, and raw's own metadata values
\* take no part in the selection.
C11_RawRestrictedBySubsetMask ==
    op = "subset_adata_v2" =>
        /\ out.obs = SelectSeq(raw.obs,
                               LAMBDA row : row.name \in SurvivingNames(adata, feature_dict))
        /\ out.X = obs_names(out)

\* no row of raw satisfies feature_dict by its own metadata, yet one is kept
\* (its identifier survives in the filtered matrix) and one is dropped though
\* the filtered matrix holds its identifier, on a failing row; raw runs in the
\* opposite order to the filtered matrix
C11_Witness ==
    /\ op = "subset_adata_v2"
    /\ Len(feature_dict) > 0
    /\ Len(raw.obs) = 2 /\ Len(adata.obs) = 2
    /\ raw.X = Descending(Range(raw.X)) /\ adata.X = Ascending(Range(adata.X))
    /\ \A i \in 1..Len(raw.obs) : ~Satisfies(raw.obs[i], feature_dict)
    /\ Len(out.obs) = 1
    /\ \E i \in 1..Len(raw.obs) :
         /\ raw.obs[i].name \notin Range(out.X)
         /\ raw.obs[i].name \in Range(adata.X)

\* ------------------------------------------------------------------------
\* scanpy_helpers.py: classify_type
\* ------------------------------------------------------------------------
\* cell names and cluster values are both strings; "0" is at once a cluster
\* value and a cell name (the default obs_names are "0", "1", ..)
CellNames     == <<"c1", "c2", "0">>
ClusterValues == {"0", "1"}
ListedValues  == {"0", "1", "c1"}   \* what a type_dict entry may list
Labels        == {"A", "B"}

\* raw_adata.obs_names: any of the cell names, in the order of CellNames
RawNameLists == {SelectSeq(CellNames, LAMBDA c : c \in S) : S \in SUBSET Range(CellNames)}
\* clustered_adata.obs: any of the cells, each with its louvain value
ClusteredTables ==
    UNION {{[i \in 1..Len(q) |-> [name |-> q[i], louvain |-> l[i]]] :
              l \in [1..Len(q) -> ClusterValues]} : q \in RawNameLists}
\* type_dict in iteration order; a value list is used for membership only
TypeDicts ==
    UNION {{[i \in 1..Len(q) |-> <<q[i], l[i]>>] : l \in [1..Len(q) -> SUBSET ListedValues]} :
           q \in Orderings(Labels)}

\* line 431: zip(obs['louvain'], obs_names) binds name to the louvain value
\* and cluster to the cell name, so the test `cluster in value` is made on the
\* cell name and the louvain value is what is collected
clustered_names(tbl, value) ==
    [i \in 1..Len(SelectSeq(tbl, LAMBDA row : row.name \in value)) |->
        SelectSeq(tbl, LAMBDA row : row.name \in value)[i].louvain]

\* line 432
value_idx(names, cnames) == {i \in 1..Len(names) : names[i] \in Range(cnames)}

\* lines 430-434, the loop over type_dict.items() from entry k on
RECURSIVE classify_loop(_, _, _, _, _)
classify_loop(type_list, names, tbl, td, k) ==
    IF k > Len(td) THEN type_list
    ELSE LET hit == value_idx(names, clustered_names(tbl, td[k][2]))
         IN  classify_loop([i \in 1..Len(type_list) |-> IF i \in hit THEN td[k][1] ELSE type_list[i]],
                           names, tbl, td, k + 1)

classify_type(names, tbl, td) ==
    classify_loop([i \in 1..Len(names) |-> "unknown"], names, tbl, td, 1)

ClassifyType ==
    /\ cpc = "start"
    /\ type_col' = classify_type(raw_names, clustered, type_dict)
    /\ cpc' = "done"
    /\ UNCHANGED <<raw_names, clustered, type_dict>>

InitClassify ==
    /\ PipeIdle /\ SubIdle /\ ScanIdle
    /\ raw_names \in RawNameLists /\ clustered \in ClusteredTables /\ type_dict \in TypeDicts
    /\ type_col = <<>> /\ cpc = "start"

NextClassify == ClassifyType /\ UNCHANGED <<pipeVars, subVars, scanVars>>

SpecClassify == InitClassify /\ [][NextClassify]_vars

\* the labels whose listed cluster values include the cluster of cell c
LabelsOf(c) ==
    {type_dict[k][1] : k \in {k \in 1..Len(type_dict) :
        \E j \in 1..Len(clustered) :
            clustered[j].name = c /\ clustered[j].louvain \in type_dict[k][2]}}

\* C3: after classify_type every raw cell that the clustered matrix holds
\* under a cluster value listed for a label L carries L, every other raw cell
\* "unknown".
C3_LabelsPropagate ==
    cpc = "done" =>
        \A i \in 1..Len(raw_names) :
            IF LabelsOf(raw_names[i]) = {}
            THEN type_col[i] = "unknown"
            ELSE type_col[i] \in LabelsOf(raw_names[i])

\* ------------------------------------------------------------------------
\* scanpy_helpers.py: scan_res
\* ------------------------------------------------------------------------
MaxStepMilli == 1100   \* largest step size, in thousandths

\* step sizes (in thousandths) whose product with 100 falls just below a
\* whole number in binary floating point, so that int() yields one less
RoundsBelow == {290, 570, 580, 1130, 1140, 1150, 1160}
\* line 397: int(step_size * 100)
basis_point(step) == (step * 100) \div 1000 - (IF step \in RoundsBelow THEN 1 ELSE 0)

\* range(a, b, c) for a positive step c
RECURSIVE PyRange(_, _, _)
PyRange(a, b, c) == IF a >= b THEN <<>> ELSE <<a>> \o PyRange(a + c, b, c)

\* 'res_{}'.format(res): one label per resolution
col_label(res) == <<"res", res>>

\* class2class_reg(X=df[a].values, y=df[b].values): the score of the pair
class2class_reg(a, b) == [X |-> a, y |-> b]

\* mutant: the scores are paired with the lower resolution of each pair
SimDf_LowerRes(rl, al) ==
    [i \in 1..Len(al) |-> [resolution |-> rl[i], similarity |-> al[i]]]
\* lines 413-414: pd.DataFrame({'resolution': res_list[1:], 'similarity': acc_list})
SimDf(rl, al) ==
    [i \in 1..Len(al) |-> [resolution |-> PyTail(rl)[i], similarity |-> al[i]]]

\* lines 397-401: range() raises ValueError when the step is zero
ScanStart ==
    /\ spc = "start"
    /\ IF basis_point(step_size) = 0
       THEN /\ spc' = "raised"
            /\ UNCHANGED res_list
       ELSE /\ res_list' = PyRange(basis_point(step_size), 100, basis_point(step_size))
            /\ spc' = "cluster"
    /\ sidx' = 1
    /\ UNCHANGED <<step_size, df_cols, acc_list, sim_df>>

\* lines 402-405: one pass of the loop over res_list; assigning an existing
\* column replaces it, a new one is appended
ScanCluster ==
    /\ spc = "cluster"
    /\ IF sidx > Len(res_list)
       THEN /\ spc' = "score"
            /\ sidx' = 1
            /\ UNCHANGED df_cols
       ELSE /\ df_cols' = (IF col_label(res_list[sidx]) \in Range(df_cols)
                           THEN df_cols
                           ELSE Append(df_cols, col_label(res_list[sidx])))
            /\ sidx' = sidx + 1
            /\ UNCHANGED spc
    /\ UNCHANGED <<step_size, res_list, acc_list, sim_df>>

\* lines 408-411: one pass of the loop over range(len(col_labels) - 1)
ScanScore ==
    /\ spc = "score"
    /\ IF sidx > Len(df_cols) - 1
       THEN /\ spc' = "frame"
            /\ UNCHANGED <<acc_list, sidx>>
       ELSE /\ acc_list' = Append(acc_list, class2class_reg(df_cols[sidx], df_cols[sidx + 1]))
            /\ sidx' = sidx + 1
            /\ UNCHANGED spc
    /\ UNCHANGED <<step_size, res_list, df_cols, sim_df>>

\* lines 413-414: arrays of different lengths make DataFrame raise ValueError
ScanFrame ==
    /\ spc = "frame"
    /\ IF Len(PyTail(res_list)) # Len(acc_list)
       THEN /\ spc' = "raised"
            /\ UNCHANGED sim_df
       ELSE /\ sim_df' = SimDf(res_list, acc_list)
            /\ spc' = "done"
    /\ UNCHANGED <<step_size, sidx, res_list, df_cols, acc_list>>

InitScan ==
    /\ PipeIdle /\ SubIdle /\ ClassIdle
    /\ spc = "start" /\ step_size \in 1..MaxStepMilli /\ sidx = 1 /\ res_list = <<>>
    /\ df_cols = <<>> /\ acc_list = <<>> /\ sim_df = <<>>

NextScan ==
    \/ ScanStart /\ UNCHANGED <<pipeVars, subVars, classVars>>
    \/ ScanCluster /\ UNCHANGED <<pipeVars, subVars, classVars>>
    \/ ScanScore /\ UNCHANGED <<pipeVars, subVars, classVars>>
    \/ ScanFrame /\ UNCHANGED <<pipeVars, subVars, classVars>>

SpecScan == InitScan /\ [][NextScan]_vars

ScanEnded == spc \in {"done", "raised"}
\* one score per adjacent pair of resolutions, paired with the higher one
PairedWithNext ==
    \A i \in 1..Len(sim_df) :
        /\ i + 1 <= Len(res_list)
        /\ sim_df[i].resolution = res_list[i + 1]
        /\ sim_df[i].similarity =
              class2class_reg(col_label(res_list[i]), col_label(res_list[i + 1]))

\* C8: for every step size the scan ends with a table of exactly
\* len(res_list) - 1 entries, one score per adjacent pair of resolutions,
\* paired with the higher resolution of the pair.
C8_OnePerAdjacentPair ==
    ScanEnded =>
        /\ spc = "done"
        /\ Len(sim_df) = Len(res_list) - 1
        /\ PairedWithNext

\* C8 as amended: for every step size with int(step_size*100) >= 1, res_list
\* holds the multiples of int(step_size*100)/100 below 1.0 and the table has
\* len(res_list) - 1 entries when res_list is not empty, none when it is;
\* each entry is the score of an adjacent pair with the higher resolution.
C8_OnePerAdjacentPairAmended ==
    (ScanEnded /\ basis_point(step_size) >= 1) =>
        /\ spc = "done"
        /\ \A i \in 1..Len(res_list) :
              res_list[i] = i * basis_point(step_size) /\ res_list[i] < 100
        /\ (Len(res_list) + 1) * basis_point(step_size) >= 100
        /\ Len(sim_df) = (IF Len(res_list) = 0 THEN 0 ELSE Len(res_list) - 1)
        /\ PairedWithNext

\* the default step 0.05: nineteen resolutions, eighteen scores
C8_Witness ==
    /\ spc = "done" /\ step_size = 50
    /\ Len(res_list) = 19 /\ Len(sim_df) = 18

====
